---- MODULE Spec2Model ----
(***************************************************************************)
(* A model of pkg/router/router.go: the binding table, the router         *)
(* composer (Merge), the dispatcher (ServeHTTP) and the parameter context  *)
(* (PathParam).                                                            *)
(*                                                                         *)
(* Strings are sequences of one-character strings, so that concatenation  *)
(* (router.path + binding.match) and pattern matching are computed, not   *)
(* assumed.  Middleware chains are Go slices: a slice is a header          *)
(* (array, len, cap) over a backing array kept in `heap`, and append      *)
(* writes in place whenever the capacity allows it.                        *)
(***************************************************************************)
EXTENDS Integers, Sequences, FiniteSets, TLC

(***************************************************************************)
(* The HTTP verbs, router.go lines 12-22.                                  *)
(***************************************************************************)
connect == "CONNECT"
delete == "DELETE"
get == "GET"
head == "HEAD"
options == "OPTIONS"
patch == "PATCH"
post == "POST"
put == "PUT"
trace == "TRACE"

(***************************************************************************)
(* Characters.                                                             *)
(***************************************************************************)
UpperChars == <<"A","B","C","D","E","F","G","H","I","J","K","L","M",
                "N","O","P","Q","R","S","T","U","V","W","X","Y","Z">>
LowerChars == <<"a","b","c","d","e","f","g","h","i","j","k","l","m",
                "n","o","p","q","r","s","t","u","v","w","x","y","z">>
DigitChars == <<"0","1","2","3","4","5","6","7","8","9">>

Range(f) == { f[i] : i \in DOMAIN f }

\* the characters a parameter name is made of: [0-9A-Za-z_]
NameChars == Range(UpperChars) \cup Range(LowerChars) \cup Range(DigitChars) \cup {"_"}

\* the characters that may precede a parameter as its prefix (default "./")
PrefixChars == {".", "/"}

\* the default delimiter class "/#?": a parameter never spans one of these, and
\* a non-strict pattern accepts one of them after its last token
DelimiterChars == {"/", "#", "?"}

\* the library compiles with the case-insensitive flag unless Sensitive is set
FoldCase(c) ==
    IF c \in Range(UpperChars)
    THEN LowerChars[CHOOSE i \in DOMAIN UpperChars : UpperChars[i] = c]
    ELSE c

(***************************************************************************)
(* pathToRegexp.PathToRegexp(path, &tokens, nil), as called on line 86.    *)
(* A compiled pattern is the sequence of its pieces: a literal piece       *)
(* [lit |-> chars] or a key [Name |-> chars, Prefix |-> chars].  The       *)
(* compile fails on a ":" that no name follows.                            *)
(***************************************************************************)
RECURSIVE NameEnd(_, _)
\* the index after the longest run of name characters of p starting at i
NameEnd(p, i) ==
    IF i <= Len(p) /\ p[i] \in NameChars THEN NameEnd(p, i + 1) ELSE i

\* PathToRegexp returns (regexp, err): err is set and the regexp is empty on a
\* malformed pattern
PatternError == [err |-> TRUE, pieces |-> <<>>]

Compiled(pieces) == [err |-> FALSE, pieces |-> pieces]

Flush(res, lit) == IF lit = <<>> THEN res ELSE Append(res, [lit |-> lit])

Key(name, prefix) == [Name |-> name, Prefix |-> prefix]

RECURSIVE ParseFrom(_, _, _, _)
ParseFrom(p, i, lit, res) ==
    IF i > Len(p) THEN Compiled(Flush(res, lit))
    ELSE IF p[i] = ":" THEN
        LET e == NameEnd(p, i + 1) IN
        IF e = i + 1 THEN PatternError
        ELSE ParseFrom(p, e, <<>>,
                 Append(Flush(res, lit), Key(SubSeq(p, i + 1, e - 1), <<>>)))
    ELSE IF i + 1 <= Len(p) /\ p[i + 1] = ":" THEN
        LET e == NameEnd(p, i + 2) IN
        IF e = i + 2 THEN PatternError
        ELSE IF p[i] \in PrefixChars
             THEN ParseFrom(p, e, <<>>,
                      Append(Flush(res, lit), Key(SubSeq(p, i + 2, e - 1), <<p[i]>>)))
             ELSE ParseFrom(p, e, <<>>,
                      Append(Flush(res, Append(lit, p[i])),
                             Key(SubSeq(p, i + 2, e - 1), <<>>)))
    ELSE ParseFrom(p, i + 1, Append(lit, p[i]), res)

PathToRegexp(path) == ParseFrom(path, 1, <<>>, <<>>)

IsKey(piece) == "Name" \in DOMAIN piece

\* the `tokens` out-parameter: the keys of the pattern, in pattern order
TokensOf(pieces) == SelectSeq(pieces, IsKey)

(***************************************************************************)
(* regexp.FindStringMatch(url), line 88.  The expression is anchored at    *)
(* both ends; a key matches the shortest non-empty run of non-delimiter    *)
(* characters that lets the rest match; one trailing delimiter is          *)
(* optional.  The result is nil or a match: Index is where the match       *)
(* starts in the input, groups are group 0 (the whole match) followed by   *)
(* one group per key.                                                      *)
(***************************************************************************)
Fail == [ok |-> FALSE, caps |-> <<>>]

Caps(caps) == [ok |-> TRUE, caps |-> caps]

LitAt(lit, s, pos) ==
    /\ pos + Len(lit) - 1 <= Len(s)
    /\ \A j \in 1..Len(lit) : FoldCase(s[pos + j - 1]) = FoldCase(lit[j])

RECURSIVE MatchFrom(_, _, _, _)
RECURSIVE KeyFrom(_, _, _, _, _)

\* captures of pieces k.. against s from pos
MatchFrom(pieces, k, s, pos) ==
    IF k > Len(pieces) THEN
        IF pos > Len(s) \/ (pos = Len(s) /\ s[pos] \in DelimiterChars)
        THEN Caps(<<>>) ELSE Fail
    ELSE IF IsKey(pieces[k]) THEN
        IF LitAt(pieces[k].Prefix, s, pos)
        THEN KeyFrom(pieces, k, s, pos + Len(pieces[k].Prefix), 1)
        ELSE Fail
    ELSE IF LitAt(pieces[k].lit, s, pos)
         THEN MatchFrom(pieces, k + 1, s, pos + Len(pieces[k].lit))
         ELSE Fail

\* key k captures n characters from pos, n as small as possible
KeyFrom(pieces, k, s, pos, n) ==
    IF pos + n - 1 > Len(s) \/ s[pos + n - 1] \in DelimiterChars THEN Fail
    ELSE LET rest == MatchFrom(pieces, k + 1, s, pos + n) IN
         IF rest.ok THEN Caps(<<SubSeq(s, pos, pos + n - 1)>> \o rest.caps)
         ELSE KeyFrom(pieces, k, s, pos, n + 1)

NilMatch == [nil |-> TRUE, Index |-> 0, groups |-> <<>>]

FindStringMatch(pieces, s) ==
    LET m == MatchFrom(pieces, 1, s, 1) IN
    IF m.ok THEN [nil |-> FALSE, Index |-> 0, groups |-> <<s>> \o m.caps]
    ELSE NilMatch

(***************************************************************************)
(* Go slices of MiddlewareFunc.  `heap` holds the backing arrays; a slice  *)
(* header names one of them with a length and a capacity (every slice of   *)
(* the model starts at the first element of its array).  NilSlice is the   *)
(* nil slice.                                                              *)
(***************************************************************************)
NilSlice == [arr |-> 0, len |-> 0, cap |-> 0]

\* the zero value of an array element no append has written yet
ZeroFn == "nil"

\* the elements a slice header shows
Elems(h, s) == [i \in 1..s.len |-> h[s.arr][i]]

\* capacities (in elements) of the allocator's size classes for 8-byte elements
SizeClasses == <<1, 2, 3, 4, 6, 8, 10, 12, 14, 16>>

RoundUpSize(n) ==
    SizeClasses[CHOOSE i \in DOMAIN SizeClasses :
                    /\ SizeClasses[i] >= n
                    /\ \A j \in DOMAIN SizeClasses : SizeClasses[j] >= n => j >= i]

\* the capacity of the array append allocates when `needed` elements do not
\* fit in oldCap: the needed length when it is more than double the old
\* capacity, else double, rounded up to a size class
GrowCap(oldCap, needed) ==
    RoundUpSize(IF needed > 2 * oldCap THEN needed ELSE 2 * oldCap)

Padded(xs, cap) == [i \in 1..cap |-> IF i <= Len(xs) THEN xs[i] ELSE ZeroFn]

\* append(s, xs...): in place when the capacity allows it, even when the array
\* is shared with another slice; into a new array otherwise
GoAppend(h, s, xs) ==
    IF xs = <<>> THEN [heap |-> h, slice |-> s]
    ELSE IF s.len + Len(xs) <= s.cap THEN
        [heap |-> [h EXCEPT ![s.arr] =
                      [i \in 1..s.cap |->
                          IF i > s.len /\ i <= s.len + Len(xs)
                          THEN xs[i - s.len] ELSE @[i]]],
         slice |-> [s EXCEPT !.len = s.len + Len(xs)]]
    ELSE LET c == GrowCap(s.cap, s.len + Len(xs)) IN
        [heap |-> Append(h, Padded(Elems(h, s) \o xs, c)),
         slice |-> [arr |-> Len(h) + 1, len |-> s.len + Len(xs), cap |-> c]]

\* a variadic argument `middleware ...MiddlewareFunc` (lines 130-172): no
\* argument gives the nil slice, listed arguments a new array exactly as long,
\* and `s...` passes the caller's slice s itself
NoMiddleware == [kind |-> "none", fns |-> <<>>, slice |-> NilSlice]

Listed(fns) == [kind |-> "list", fns |-> fns, slice |-> NilSlice]

Spread(s) == [kind |-> "spread", fns |-> <<>>, slice |-> s]

Variadic(h, arg) ==
    IF arg.kind = "spread" THEN [heap |-> h, slice |-> arg.slice]
    ELSE IF arg.fns = <<>> THEN [heap |-> h, slice |-> NilSlice]
    ELSE [heap |-> Append(h, arg.fns),
          slice |-> [arr |-> Len(h) + 1, len |-> Len(arg.fns), cap |-> Len(arg.fns)]]

(***************************************************************************)
(* State.                                                                  *)
(*   routers  each Router: path, binding (the table, a sequence of         *)
(*            Binding records whose middlewares field is a slice header)   *)
(*            and middlewares (the router-level chain).  The table and     *)
(*            the router-level chain are reached through their router      *)
(*            alone, so they are kept as values.                           *)
(*   heap     the backing arrays of the middleware slices                  *)
(*   op       the last call made on a router and what it returned          *)
(*   resp     what the last ServeHTTP did: the functions it called         *)
(*   budget   how many more table-building calls the run makes             *)
(***************************************************************************)
VARIABLES routers, heap, op, resp, budget, inflight

vars == <<routers, heap, op, resp, budget, inflight>>

RouterIds == {"A", "B", "C"}

Binding(f, match, method, middlewares) ==
    [handler |-> f, match |-> match, method |-> method, middlewares |-> middlewares]

\* &Router{}
NewRouter == [path |-> <<>>, binding |-> <<>>, middlewares |-> <<>>]

NoRequest == [Method |-> "", Path |-> <<>>, RawQuery |-> <<>>, ForceQuery |-> FALSE]

\* a call: the method, its receiver r, its string arguments, the routers or the
\* request it was given, and the router it returned ("" when it returns none)
Call(name, r, args, children, req, ret) ==
    [name |-> name, r |-> r, args |-> args, routers |-> children, req |-> req, ret |-> ret]

NoResp == [outcome |-> "NONE", binding |-> 0, log |-> <<>>]

(***************************************************************************)
(* The parameter context: context.WithValue chains, newest last.           *)
(***************************************************************************)
\* req.Context() of an incoming request: no value under any string key
Background == <<>>

WithValue(ctx, key, value) == Append(ctx, [key |-> key, value |-> value])

\* an interface{} result: nil, or the string stored
Absent == [absent |-> TRUE, value |-> <<>>]

Present(value) == [absent |-> FALSE, value |-> value]

\* ctx.Value(key): the newest entry under the key, nil when there is none
Value(ctx, key) ==
    IF \E i \in DOMAIN ctx : ctx[i].key = key
    THEN Present(ctx[CHOOSE i \in DOMAIN ctx :
                         /\ ctx[i].key = key
                         /\ \A j \in DOMAIN ctx : ctx[j].key = key => j <= i].value)
    ELSE Absent

\* PathParam, lines 120-122, on a request whose context is ctx
PathParam(ctx, key) == Value(ctx, key)

(***************************************************************************)
(* ServeHTTP, lines 82-117.                                                *)
(***************************************************************************)
\* req.URL.String() of a server request: the path, then "?" and the query
\* when there is a query or the URL ended in a bare "?"
URLString(req) ==
    req.Path \o (IF req.ForceQuery \/ req.RawQuery # <<>>
                 THEN <<"?">> \o req.RawQuery ELSE <<>>)

\* a variant that binds the whole match alone
BindGroupsWhole(ctx, tokens, match, g) ==
    IF Len(tokens) > 0 /\ g = 1
    THEN WithValue(ctx, tokens[1].Name, match.groups[1])
    ELSE ctx

RECURSIVE BindGroups(_, _, _, _)
\* lines 102-109: one WithValue per group of the match, each under the name
\* of tokens[match.Index]
BindGroups(ctx, tokens, match, g) ==
    IF g > Len(match.groups) THEN ctx
    ELSE IF Len(tokens) >= match.Index /\ Len(tokens) > 0
         THEN BindGroups(WithValue(ctx, tokens[match.Index + 1].Name, match.groups[g]),
                         tokens, match, g + 1)
         ELSE BindGroups(ctx, tokens, match, g + 1)

\* a variant in which the first middleware of a chain ends the chain
RunChainShort(fns, from, ctx) ==
    [i \in 1..(IF Len(fns) > 0 THEN 1 ELSE 0) |->
        [kind |-> "middleware", fn |-> fns[i], from |-> from, ctx |-> ctx]]

\* the calls m(&rw, req) of one loop over a chain; `from` is 0 for the router's
\* own chain and the binding's index for a binding's chain
RunChain(fns, from, ctx) ==
    [i \in 1..Len(fns) |-> [kind |-> "middleware", fn |-> fns[i], from |-> from, ctx |-> ctx]]

\* a variant that extracts the parameters before the middlewares run and
\* hands them the request that carries the parameters
InvokeParamsFirst(r, h, req, i, tokens, match) ==
    RunChain(r.middlewares, 0, BindGroups(Background, tokens, match, 1))
    \o RunChain(Elems(h, r.binding[i].middlewares), i,
                BindGroups(Background, tokens, match, 1))
    \o <<[kind |-> "handler", fn |-> r.binding[i].handler, from |-> i,
          ctx |-> BindGroups(Background, tokens, match, 1)]>>

\* a variant that runs the binding's chain before the router's
InvokeBindingFirst(r, h, req, i, tokens, match) ==
    RunChain(Elems(h, r.binding[i].middlewares), i, Background)
    \o RunChain(r.middlewares, 0, Background)
    \o <<[kind |-> "handler", fn |-> r.binding[i].handler, from |-> i,
          ctx |-> BindGroups(Background, tokens, match, 1)]>>

\* lines 92-112: the router's middlewares, the binding's middlewares, then the
\* handler on the request that carries the parameters
Invoke(r, h, req, i, tokens, match) ==
    RunChain(r.middlewares, 0, Background)
    \o RunChain(Elems(h, r.binding[i].middlewares), i, Background)
    \o <<[kind |-> "handler", fn |-> r.binding[i].handler, from |-> i,
          ctx |-> BindGroups(Background, tokens, match, 1)]>>

\* a variant that compares methods without regard to letter case
MethodMatchesFold(req, binding) ==
    LET upper(m) == IF m = "get" THEN get ELSE IF m = "post" THEN post ELSE m
    IN upper(req.Method) = upper(binding.method)

\* line 84
MethodMatches(req, binding) == req.Method = binding.method

RECURSIVE ScannedTokens(_, _, _)
\* the tokens of every pattern compiled for the request up to binding i
ScannedTokens(r, req, i) ==
    IF i = 0 THEN <<>>
    ELSE ScannedTokens(r, req, i - 1)
         \o (IF MethodMatches(req, r.binding[i])
             THEN TokensOf(PathToRegexp(r.path \o r.binding[i].match).pieces)
             ELSE <<>>)

RECURSIVE ServeFrom(_, _, _, _)
\* a variant without the break of line 113: the scan goes on after a match
ServeFromNoBreak(r, h, req, i) ==
    IF i > Len(r.binding) THEN [outcome |-> "NOT_FOUND", binding |-> 0, log |-> <<>>]
    ELSE IF MethodMatches(req, r.binding[i]) THEN
        LET regexp == PathToRegexp(r.path \o r.binding[i].match) IN
        IF regexp.err THEN [outcome |-> "PANIC", binding |-> i, log |-> <<>>]
        ELSE LET match == FindStringMatch(regexp.pieces, URLString(req)) IN
             IF ~match.nil
             THEN [outcome |-> "DONE", binding |-> i,
                   log |-> Invoke(r, h, req, i, TokensOf(regexp.pieces), match)
                           \o ServeFrom(r, h, req, i + 1).log]
             ELSE ServeFrom(r, h, req, i + 1)
    ELSE ServeFrom(r, h, req, i + 1)

\* a variant with `tokens` declared outside the loop: the tokens of the
\* patterns scanned so far stay in the slice
ServeFromSharedTokens(r, h, req, i) ==
    IF i > Len(r.binding) THEN [outcome |-> "NOT_FOUND", binding |-> 0, log |-> <<>>]
    ELSE IF MethodMatches(req, r.binding[i]) THEN
        LET regexp == PathToRegexp(r.path \o r.binding[i].match) IN
        IF regexp.err THEN [outcome |-> "PANIC", binding |-> i, log |-> <<>>]
        ELSE LET match == FindStringMatch(regexp.pieces, URLString(req)) IN
             IF ~match.nil
             THEN [outcome |-> "DONE", binding |-> i,
                   log |-> Invoke(r, h, req, i, ScannedTokens(r, req, i), match)]
             ELSE ServeFrom(r, h, req, i + 1)
    ELSE ServeFrom(r, h, req, i + 1)

\* the loop of line 83 from binding i on: Must panics on a pattern that does
\* not compile, the first match runs and breaks the loop
ServeFrom(r, h, req, i) ==
    IF i > Len(r.binding) THEN [outcome |-> "NOT_FOUND", binding |-> 0, log |-> <<>>]
    ELSE IF MethodMatches(req, r.binding[i]) THEN
        LET regexp == PathToRegexp(r.path \o r.binding[i].match) IN
        IF regexp.err THEN [outcome |-> "PANIC", binding |-> i, log |-> <<>>]
        ELSE LET match == FindStringMatch(regexp.pieces, URLString(req)) IN
             IF ~match.nil
             THEN [outcome |-> "DONE", binding |-> i,
                   log |-> Invoke(r, h, req, i, TokensOf(regexp.pieces), match)]
             ELSE ServeFrom(r, h, req, i + 1)
    ELSE ServeFrom(r, h, req, i + 1)

\* a variant that stores the full pattern r.path + binding.match back into the
\* table while it scans
ServeHTTPPrefixing(r, req) ==
    /\ resp' = ServeFrom(routers[r], heap, req, 1)
    /\ op' = Call("ServeHTTP", r, <<>>, <<>>, req, "")
    /\ routers' = [routers EXCEPT ![r].binding =
                      [i \in DOMAIN @ |->
                          [@[i] EXCEPT !.match = routers[r].path \o @]]]
    /\ UNCHANGED <<heap, budget, inflight>>

ServeHTTP(r, req) ==
    /\ resp' = ServeFrom(routers[r], heap, req, 1)
    /\ op' = Call("ServeHTTP", r, <<>>, <<>>, req, "")
    /\ UNCHANGED <<routers, heap, budget, inflight>>

(***************************************************************************)
(* ServeHTTP calls in flight at once.  The server runs each request in a   *)
(* goroutine of its own; `inflight[k]` holds the locals of the k-th call:  *)
(* the request, the loop position i, the position j inside the inner loop, *)
(* the context built so far and the calls made.  A step is one iteration   *)
(* of one loop of lines 83-113.                                            *)
(***************************************************************************)
Slots == {1, 2}

Idle == [pc |-> "idle", req |-> NoRequest, i |-> 0, j |-> 0,
         ctx |-> Background, log |-> <<>>]

\* the locals `tokens` and `match` of the iteration on binding i
TokensAt(r, i) == TokensOf(PathToRegexp(r.path \o r.binding[i].match).pieces)

MatchAt(r, i, req) ==
    FindStringMatch(PathToRegexp(r.path \o r.binding[i].match).pieces, URLString(req))

\* a variant in which the calls in flight build one context between them
SharedCtx(fl, k) == fl[1].ctx \o fl[2].ctx

\* line 111: the context the handler's request carries is the local ctx of
\* this call
RequestCtx(fl, k) == fl[k].ctx

\* line 82: the server calls ServeHTTP for a request
Enter(r, k, req) ==
    /\ inflight[k].pc = "idle"
    /\ inflight' = [inflight EXCEPT ![k] = [Idle EXCEPT !.pc = "scan", !.req = req, !.i = 1]]
    /\ UNCHANGED <<routers, heap, op, resp, budget>>

\* lines 83-90: one iteration of the loop over r.binding, up to the match
ScanBinding(r, k) ==
    LET c == inflight[k]
        table == routers[r].binding IN
    /\ c.pc = "scan"
    /\ inflight' = [inflight EXCEPT ![k] =
           IF c.i > Len(table) THEN [c EXCEPT !.pc = "not_found"]
           ELSE IF ~MethodMatches(c.req, table[c.i]) THEN [c EXCEPT !.i = c.i + 1]
           ELSE IF PathToRegexp(routers[r].path \o table[c.i].match).err
                THEN [c EXCEPT !.pc = "panic"]
           ELSE IF MatchAt(routers[r], c.i, c.req).nil THEN [c EXCEPT !.i = c.i + 1]
           ELSE [c EXCEPT !.pc = "global", !.j = 1]]
    /\ UNCHANGED <<routers, heap, op, resp, budget>>

\* lines 93-95: one iteration of the loop over r.middlewares
RunGlobalMiddleware(r, k) ==
    LET c == inflight[k] IN
    /\ c.pc = "global"
    /\ inflight' = [inflight EXCEPT ![k] =
           IF c.j <= Len(routers[r].middlewares)
           THEN [c EXCEPT !.j = c.j + 1,
                          !.log = Append(@, [kind |-> "middleware",
                                             fn |-> routers[r].middlewares[c.j],
                                             from |-> 0, ctx |-> Background])]
           ELSE [c EXCEPT !.pc = "chain", !.j = 1]]
    /\ UNCHANGED <<routers, heap, op, resp, budget>>

\* lines 98-100 and 102: one iteration of the loop over binding.middlewares,
\* then ctx := req.Context()
RunRouteMiddleware(r, k) ==
    LET c == inflight[k]
        chain == Elems(heap, routers[r].binding[c.i].middlewares) IN
    /\ c.pc = "chain"
    /\ inflight' = [inflight EXCEPT ![k] =
           IF c.j <= Len(chain)
           THEN [c EXCEPT !.j = c.j + 1,
                          !.log = Append(@, [kind |-> "middleware", fn |-> chain[c.j],
                                             from |-> c.i, ctx |-> Background])]
           ELSE [c EXCEPT !.pc = "bind", !.j = 1, !.ctx = Background]]
    /\ UNCHANGED <<routers, heap, op, resp, budget>>

\* lines 103-109: one iteration of the loop over match.Groups()
BindGroup(r, k) ==
    LET c == inflight[k]
        tokens == TokensAt(routers[r], c.i)
        match == MatchAt(routers[r], c.i, c.req) IN
    /\ c.pc = "bind"
    /\ inflight' = [inflight EXCEPT ![k] =
           IF c.j > Len(match.groups) THEN [c EXCEPT !.pc = "handle"]
           ELSE IF Len(tokens) >= match.Index /\ Len(tokens) > 0
                THEN [c EXCEPT !.j = c.j + 1,
                               !.ctx = WithValue(@, tokens[match.Index + 1].Name,
                                                 match.groups[c.j])]
                ELSE [c EXCEPT !.j = c.j + 1]]
    /\ UNCHANGED <<routers, heap, op, resp, budget>>

\* lines 111-113: the handler runs on the request that carries ctx; break
CallHandler(r, k) ==
    LET c == inflight[k] IN
    /\ c.pc = "handle"
    /\ inflight' = [inflight EXCEPT ![k] =
           [c EXCEPT !.pc = "done",
                     !.log = Append(@, [kind |-> "handler",
                                        fn |-> routers[r].binding[c.i].handler,
                                        from |-> c.i, ctx |-> RequestCtx(inflight, k)])]]
    /\ UNCHANGED <<routers, heap, op, resp, budget>>

(***************************************************************************)
(* Building the table.                                                     *)
(***************************************************************************)
\* Base, lines 44-47
Base(r, prefix) ==
    /\ budget > 0
    /\ routers' = [routers EXCEPT ![r].path = prefix]
    /\ op' = Call("Base", r, <<prefix>>, <<>>, NoRequest, r)
    /\ resp' = NoResp
    /\ budget' = budget - 1
    /\ UNCHANGED inflight
    /\ UNCHANGED heap

\* AddMiddleware, lines 69-72
AddMiddleware(r, fn) ==
    /\ budget > 0
    /\ routers' = [routers EXCEPT ![r].middlewares = @ \o fn]
    /\ op' = Call("AddMiddleware", r, <<>>, <<>>, NoRequest, r)
    /\ resp' = NoResp
    /\ budget' = budget - 1
    /\ UNCHANGED inflight
    /\ UNCHANGED heap

\* a variant in which the routers share one table: a binding registered on one
\* router shows in every router's table
routeShared(name, r, method, match, f, middleware) ==
    LET v == Variadic(heap, middleware) IN
    /\ budget > 0
    /\ routers' = [x \in RouterIds |->
                      [routers[x] EXCEPT !.binding =
                          Append(@, Binding(f, match, method, v.slice))]]
    /\ heap' = v.heap
    /\ op' = Call(name, r, <<match>>, <<>>, NoRequest, r)
    /\ resp' = NoResp
    /\ budget' = budget - 1
    /\ UNCHANGED inflight

\* route, lines 204-207: the binding goes to the end of the table, holding
\* the caller's middleware slice as it is
route(name, r, method, match, f, middleware) ==
    LET v == Variadic(heap, middleware) IN
    /\ budget > 0
    /\ routers' = [routers EXCEPT ![r].binding = Append(@, Binding(f, match, method, v.slice))]
    /\ heap' = v.heap
    /\ op' = Call(name, r, <<match>>, <<>>, NoRequest, r)
    /\ resp' = NoResp
    /\ budget' = budget - 1
    /\ UNCHANGED inflight

Get(r, match, f, middleware) == route("Get", r, get, match, f, middleware)

Post(r, match, f, middleware) == route("Post", r, post, match, f, middleware)

Put(r, match, f, middleware) == route("Put", r, put, match, f, middleware)

Patch(r, match, f, middleware) == route("Patch", r, patch, match, f, middleware)

Delete(r, match, f, middleware) == route("Delete", r, delete, match, f, middleware)

Options(r, match, f, middleware) == route("Options", r, options, match, f, middleware)

Head_(r, match, f, middleware) == route("Head", r, head, match, f, middleware)

Trace(r, match, f, middleware) == route("Trace", r, trace, match, f, middleware)

Connect(r, match, f, middleware) == route("Connect", r, connect, match, f, middleware)

\* a variant that forgets the child's path
MergeBindingNoPrefix(st, r, c, binding) ==
    LET a == GoAppend(st.heap, binding.middlewares, st.routers[c].middlewares) IN
    [routers |-> [st.routers EXCEPT ![r].binding =
                     Append(@, [binding EXCEPT !.middlewares = a.slice])],
     heap |-> a.heap]

\* lines 54-60 for one binding of child c: the copy gets the child's path in
\* front of its pattern and the child's middlewares appended to its chain, and
\* goes to the end of r's table
MergeBinding(st, r, c, binding) ==
    LET a == GoAppend(st.heap, binding.middlewares, st.routers[c].middlewares) IN
    [routers |-> [st.routers EXCEPT ![r].binding =
                     Append(@, [binding EXCEPT !.match = st.routers[c].path \o @,
                                               !.middlewares = a.slice])],
     heap |-> a.heap]

RECURSIVE MergeBindings(_, _, _, _, _)
\* line 52: the bindings the child had when the loop over it began, in order
MergeBindings(st, r, c, bs, i) ==
    IF i > Len(bs) THEN st
    ELSE MergeBindings(MergeBinding(st, r, c, bs[i]), r, c, bs, i + 1)

RECURSIVE MergeRouters(_, _, _, _)
\* line 51: the children in argument order
MergeRouters(st, r, children, j) ==
    IF j > Len(children) THEN st
    ELSE MergeRouters(
             MergeBindings(st, r, children[j], st.routers[children[j]].binding, 1),
             r, children, j + 1)

\* Merge, lines 50-65
Merge(r, children) ==
    LET st == MergeRouters([routers |-> routers, heap |-> heap], r, children, 1) IN
    /\ budget > 0
    /\ routers' = st.routers
    /\ heap' = st.heap
    /\ op' = Call("Merge", r, <<>>, children, NoRequest, r)
    /\ resp' = NoResp
    /\ budget' = budget - 1
    /\ UNCHANGED inflight

\* a Resource (the controller interface): its name and its five handlers
ResourceOf(name) ==
    [GetName |-> name, Index |-> "Index", Get |-> "Get", Create |-> "Create",
     Delete |-> "Delete", Update |-> "Update"]

idSuffix == <<"/", ":", "i", "d">>

\* a variant that registers Update before Delete
ResourceRowsSwapped(prefix, resource) ==
    << Binding(resource.Index, prefix \o resource.GetName, get, NilSlice),
       Binding(resource.Get, prefix \o resource.GetName \o idSuffix, get, NilSlice),
       Binding(resource.Create, prefix \o resource.GetName, post, NilSlice),
       Binding(resource.Update, prefix \o resource.GetName \o idSuffix, put, NilSlice),
       Binding(resource.Delete, prefix \o resource.GetName \o idSuffix, delete, NilSlice) >>

\* lines 185-189: the five route calls of Resource, none with middleware
ResourceRows(prefix, resource) ==
    << Binding(resource.Index, prefix \o resource.GetName, get, NilSlice),
       Binding(resource.Get, prefix \o resource.GetName \o idSuffix, get, NilSlice),
       Binding(resource.Create, prefix \o resource.GetName, post, NilSlice),
       Binding(resource.Delete, prefix \o resource.GetName \o idSuffix, delete, NilSlice),
       Binding(resource.Update, prefix \o resource.GetName \o idSuffix, put, NilSlice) >>

\* Resource, lines 184-190
Resource(r, prefix, resource) ==
    /\ budget > 0
    /\ routers' = [routers EXCEPT ![r].binding = @ \o ResourceRows(prefix, resource)]
    /\ op' = Call("Resource", r, <<prefix, resource.GetName>>, <<>>, NoRequest, "")
    /\ resp' = NoResp
    /\ budget' = budget - 1
    /\ UNCHANGED inflight
    /\ UNCHANGED heap

(***************************************************************************)
(* Inputs: the strings, functions and requests the runs draw from.         *)
(***************************************************************************)
sUser == <<"/", "u", "s", "e", "r">>
sUserId == <<"/", "u", "s", "e", "r", "/", ":", "i", "d">>
sUserColon == <<"/", "u", "s", "e", "r", "/", ":">>
sAB == <<"/", ":", "a", "/", ":", "b">>
sV1 == <<"/", "v", "1">>
sV1Slash == <<"/", "v", "1", "/">>
sWidget == <<"w", "i", "d", "g", "e", "t">>
sId == <<"i", "d">>
s42 == <<"4", "2">>
s7 == <<"7">>
sX == <<"x">>

Req(method, path) == [Method |-> method, Path |-> path, RawQuery |-> <<>>, ForceQuery |-> FALSE]

ReqQuery(method, path, query) ==
    [Method |-> method, Path |-> path, RawQuery |-> query, ForceQuery |-> FALSE]

\* the caller's slice `shared := []MiddlewareFunc{m1, m2}`, array 1 of the heap
shared == [arr |-> 1, len |-> 2, cap |-> 2]

\* shared[:k]
Reslice(s, k) == [s EXCEPT !.len = k]

InitWith(calls) ==
    /\ routers = [r \in RouterIds |-> NewRouter]
    /\ heap = << <<"m1", "m2">> >>
    /\ op = Call("new", "", <<>>, <<>>, NoRequest, "")
    /\ resp = NoResp
    /\ budget = calls
    /\ inflight = [k \in Slots |-> Idle]

(***************************************************************************)
(* Spec: one router is built by Base, Get, Post and AddMiddleware and      *)
(* serves requests; two of its patterns overlap and one does not compile.  *)
(***************************************************************************)
MaxCalls == 3

Init == InitWith(MaxCalls)

Routes == {sUserId, sAB}

Handlers == {<<"h1", NoMiddleware>>, <<"h2", Listed(<<"m1", "m2">>)>>}

Requests ==
    { Req(get, sUser \o <<"/">> \o s42),
      Req(get, <<"/", "U", "S", "E", "R", "/">> \o s42 \o <<"/">>),
      Req(get, sUser),
      Req(get, sV1 \o sUser \o <<"/">> \o s42),
      Req(post, sUser),
      Req("get", sUser \o <<"/">> \o s42),
      Req(get, <<"/">> \o sX \o <<"/">> \o s7),
      ReqQuery(get, sUser \o <<"/">> \o s42, sX) }

Next ==
    \/ Base("A", sV1)
    \/ \E match \in Routes, f \in Handlers : Get("A", match, f[1], f[2])
    \/ \E match \in {sUser, sUserColon} : Post("A", match, "h3", NoMiddleware)
    \/ \E g \in {"g1", "g2"} : AddMiddleware("A", <<g>>)
    \/ \E req \in Requests : ServeHTTP("A", req)

Spec == Init /\ [][Next]_vars

(***************************************************************************)
(* SpecMerge: a child router B is built and merged into a parent A; the    *)
(* caller passes (parts of) one slice as the middleware of several routes. *)
(***************************************************************************)
MaxMergeCalls == 4

InitMerge == InitWith(MaxMergeCalls)

MergeRequests ==
    { Req(get, sV1Slash \o <<"u", "s", "e", "r">>),
      Req(get, sV1Slash \o sUser),
      Req(get, sUser) }

NextMerge ==
    \/ Base("B", sV1Slash)
    \/ \E m \in {NoMiddleware, Spread(Reslice(shared, 1)), Spread(shared)} :
           Get("B", sUser, "h1", m)
    \/ \E m \in {NoMiddleware, Spread(shared)} : Get("A", sUser, "h2", m)
    \/ AddMiddleware("B", <<"g1">>)
    \/ AddMiddleware("A", <<"g2", "g3">>)
    \/ \E children \in {<<"B">>, <<"B", "B">>} : Merge("A", children)
    \/ \E req \in MergeRequests : ServeHTTP("A", req)

SpecMerge == InitMerge /\ [][NextMerge]_vars

(***************************************************************************)
(* SpecResource: a router is built by Resource and the nine verb calls.    *)
(***************************************************************************)
MaxResourceCalls == 3

InitResource == InitWith(MaxResourceCalls)

sV1Widget == sV1Slash \o sWidget

ResourceRequests ==
    { Req(get, sV1Widget), Req(get, sV1Widget \o <<"/">> \o s7),
      Req(post, sV1Widget), Req(delete, sV1Widget \o <<"/">> \o s7),
      Req(put, sV1Widget \o <<"/">> \o s7) }

NextResource ==
    \/ Resource("A", sV1Slash, ResourceOf(sWidget))
    \/ Get("A", sV1Widget, "h1", NoMiddleware)
    \/ Post("A", sV1Widget, "h1", NoMiddleware)
    \/ Put("A", sV1Widget, "h1", NoMiddleware)
    \/ Patch("A", sV1Widget, "h1", NoMiddleware)
    \/ Delete("A", sV1Widget, "h1", NoMiddleware)
    \/ Options("A", sV1Widget, "h1", NoMiddleware)
    \/ Head_("A", sV1Widget, "h1", NoMiddleware)
    \/ Trace("A", sV1Widget, "h1", NoMiddleware)
    \/ Connect("A", sV1Widget, "h1", NoMiddleware)
    \/ \E req \in ResourceRequests : ServeHTTP("A", req)

SpecResource == InitResource /\ [][NextResource]_vars

(***************************************************************************)
(* SpecNested: C is built and merged into B, B is merged into A; each      *)
(* router may have a base path, B and C a middleware of their own.         *)
(***************************************************************************)
MaxNestedCalls == 5

InitNested == InitWith(MaxNestedCalls)

sApi == <<"/", "a", "p", "i">>

sApp == <<"/", "a", "p", "p">>

NestedRequests ==
    { Req(get, sApp \o sApi \o sV1 \o sUser),
      Req(get, sApi \o sV1 \o sUser) }

NextNested ==
    \/ \E m \in {Spread(Reslice(shared, 1)), Spread(shared)} :
           Get("C", sUser, "h1", m)
    \/ Base("C", sV1)
    \/ Base("B", sApi)
    \/ Base("A", sApp)
    \/ AddMiddleware("C", <<"g1">>)
    \/ AddMiddleware("B", <<"g2">>)
    \/ Merge("B", <<"C">>)
    \/ Merge("A", <<"B">>)
    \/ \E req \in NestedRequests : ServeHTTP("A", req)

SpecNested == InitNested /\ [][NextNested]_vars

(***************************************************************************)
(* SpecConcurrent: router A is built, then serves two requests at once:    *)
(* the steps of the two ServeHTTP calls interleave freely.  The table is   *)
(* built before the first request arrives.                                 *)
(***************************************************************************)
MaxConcurrentCalls == 2

InitConcurrent == InitWith(MaxConcurrentCalls)

ConcurrentRequests ==
    { Req(get, sUser \o <<"/">> \o s42),
      Req(get, sUser \o <<"/">> \o s7),
      Req(post, sUser \o <<"/">> \o s7) }

Building == \A k \in Slots : inflight[k].pc = "idle"

NextConcurrent ==
    \/ Building /\ Get("A", sUserId, "h1", NoMiddleware)
    \/ Building /\ Get("A", sAB, "h2", Listed(<<"m1">>))
    \/ Building /\ AddMiddleware("A", <<"g1">>)
    \/ \E k \in Slots, req \in ConcurrentRequests : Enter("A", k, req)
    \/ \E k \in Slots : ScanBinding("A", k)
    \/ \E k \in Slots : RunGlobalMiddleware("A", k)
    \/ \E k \in Slots : RunRouteMiddleware("A", k)
    \/ \E k \in Slots : BindGroup("A", k)
    \/ \E k \in Slots : CallHandler("A", k)

SpecConcurrent == InitConcurrent /\ [][NextConcurrent]_vars

(***************************************************************************)
(* Properties.  `Served` is a state a ServeHTTP call has just produced:    *)
(* the routers are as that call saw them.                                  *)
(***************************************************************************)
Served == op.name = "ServeHTTP"

TheRouter == routers[op.r]

HandlerCalls == { i \in DOMAIN resp.log : resp.log[i].kind = "handler" }

MiddlewareCalls == { i \in DOMAIN resp.log : resp.log[i].kind = "middleware" }

\* method and pattern of binding i of router r fit the request
Fits(r, i, req) ==
    /\ r.binding[i].method = req.Method
    /\ ~PathToRegexp(r.path \o r.binding[i].match).err
    /\ ~FindStringMatch(PathToRegexp(r.path \o r.binding[i].match).pieces,
                        URLString(req)).nil

Fitting(r, req) == { i \in DOMAIN r.binding : Fits(r, i, req) }

Earliest(S) == CHOOSE i \in S : \A j \in S : i <= j

\* C1: a dispatch calls at most one handler; the handler it calls is that of
\* the earliest binding whose method and pattern fit the request, and every
\* binding middleware it calls comes from that binding, however many later
\* bindings fit as well.
C1_FirstMatchWins ==
    Served =>
        /\ Cardinality(HandlerCalls) <= 1
        /\ \A i \in HandlerCalls :
               /\ Fitting(TheRouter, op.req) # {}
               /\ resp.log[i].from = Earliest(Fitting(TheRouter, op.req))
               /\ resp.log[i].fn = TheRouter.binding[Earliest(Fitting(TheRouter, op.req))].handler
        /\ \A i \in MiddlewareCalls :
               resp.log[i].from # 0 =>
                   /\ Fitting(TheRouter, op.req) # {}
                   /\ resp.log[i].from = Earliest(Fitting(TheRouter, op.req))

\* a dispatch in which two bindings with different handlers fit the request
C1_Witness ==
    /\ Served
    /\ HandlerCalls # {}
    /\ \E i, j \in Fitting(TheRouter, op.req) :
           /\ i < j
           /\ TheRouter.binding[i].handler # TheRouter.binding[j].handler

\* the positions in the log of the calls of the router's own chain, and of the
\* matched binding's chain
GlobalCalls == { i \in MiddlewareCalls : resp.log[i].from = 0 }

BindingCalls == { i \in MiddlewareCalls : resp.log[i].from # 0 }

Fns(log) == [i \in DOMAIN log |-> log[i].fn]

IsGlobalCall(e) == e.kind = "middleware" /\ e.from = 0

IsBindingCall(e) == e.kind = "middleware" /\ e.from # 0

\* C4 as stated: in a matched dispatch every middleware of the matched binding
\* runs before every router-level middleware, both run before the handler, and
\* each group runs in its order.
C4_BindingBeforeGlobal ==
    (Served /\ resp.outcome = "DONE") =>
        /\ \A i \in BindingCalls, j \in GlobalCalls : i < j
        /\ \A i \in MiddlewareCalls, j \in HandlerCalls : i < j
        /\ Fns(SelectSeq(resp.log, IsGlobalCall)) = TheRouter.middlewares
        /\ Fns(SelectSeq(resp.log, IsBindingCall))
               = Elems(heap, TheRouter.binding[resp.binding].middlewares)

\* C4 amended: in a matched dispatch every middleware of the dispatching router
\* runs, in registration order, before every middleware of the matched
\* binding's chain, which run in chain order, and both run before the handler.
C4_GlobalBeforeBinding ==
    (Served /\ resp.outcome = "DONE") =>
        /\ \A i \in GlobalCalls, j \in BindingCalls : i < j
        /\ \A i \in MiddlewareCalls, j \in HandlerCalls : i < j
        /\ Fns(SelectSeq(resp.log, IsGlobalCall)) = TheRouter.middlewares
        /\ Fns(SelectSeq(resp.log, IsBindingCall))
               = Elems(heap, TheRouter.binding[resp.binding].middlewares)

\* a matched dispatch of a merged binding that ran two router middlewares and
\* a chain of the binding's own middleware and the child's
C4_Witness ==
    /\ Served
    /\ resp.outcome = "DONE"
    /\ Cardinality(GlobalCalls) >= 2
    /\ Cardinality(BindingCalls) >= 2
    /\ TheRouter.middlewares[1] # TheRouter.middlewares[2]
    /\ Fns(SelectSeq(resp.log, IsBindingCall)) = <<"m1", "g1">>

ProbeKeys == {sId, sX, sUser, <<"a">>, <<"b">>, <<>>}

TokenNames(pattern) ==
    { TokensOf(PathToRegexp(pattern).pieces)[i].Name :
          i \in DOMAIN TokensOf(PathToRegexp(pattern).pieces) }

MatchedPattern == TheRouter.path \o TheRouter.binding[resp.binding].match

\* C5: in the handler of a binding "/user/:id" matched against "/user/42",
\* PathParam of "id" is "42"; PathParam of a key that names no parameter of
\* the matched pattern is absent, also when the pattern has no parameter; and
\* so is PathParam of any key on a request without parameter context.
C5_PathParam ==
    /\ \A key \in ProbeKeys : PathParam(Background, key) = Absent
    /\ Served =>
           \A i \in HandlerCalls :
               /\ (MatchedPattern = sUserId /\ op.req.Path = sUser \o <<"/">> \o s42)
                      => PathParam(resp.log[i].ctx, sId) = Present(s42)
               /\ \A key \in ProbeKeys \ TokenNames(MatchedPattern) :
                      PathParam(resp.log[i].ctx, key) = Absent

\* the handler of "/user/:id" runs for "/user/42" and reads "id"
C5_Witness ==
    /\ Served
    /\ HandlerCalls # {}
    /\ MatchedPattern = sUserId
    /\ op.req.Path = sUser \o <<"/">> \o s42
    /\ \A i \in HandlerCalls : PathParam(resp.log[i].ctx, sId) = Present(s42)

\* C6: when no binding has the request's method and a pattern matching the
\* request path, the dispatch ends in NOT_FOUND, having called no handler and
\* no middleware.
C6_NotFound ==
    (Served /\ Fitting(TheRouter, Req(op.req.Method, op.req.Path)) = {}) =>
        /\ resp.outcome = "NOT_FOUND"
        /\ resp.log = <<>>

\* C8: no table ever holds a binding whose pattern does not compile, and no
\* dispatch meets a compile failure.
C8_RejectedAtRegistration ==
    /\ \A r \in RouterIds : \A i \in DOMAIN routers[r].binding :
           ~PathToRegexp(routers[r].binding[i].match).err
    /\ resp.outcome # "PANIC"

\* what a table holds: each binding with the functions its chain shows
TableView(r, h) ==
    [i \in DOMAIN r.binding |->
        [handler |-> r.binding[i].handler, match |-> r.binding[i].match,
         method |-> r.binding[i].method,
         chain |-> Elems(h, r.binding[i].middlewares)]]

IsPrefix(s, t) == Len(s) <= Len(t) /\ SubSeq(t, 1, Len(s)) = s

\* the handlers of the child's GET bindings on "/user"
ChildUserHandlers ==
    { routers["B"].binding[i].handler :
          i \in { j \in DOMAIN routers["B"].binding :
                      /\ routers["B"].binding[j].method = get
                      /\ routers["B"].binding[j].match = sUser } }

\* B, with base path "/v1/" and a GET binding on "/user", has just been merged
\* into A, which has no base path
MergedV1User ==
    /\ op.name = "Merge"
    /\ op.r = "A"
    /\ "B" \in Range(op.routers)
    /\ routers["A"].path = <<>>
    /\ routers["B"].path = sV1Slash
    /\ ChildUserHandlers # {}

GetV1User == Req(get, <<"/", "v", "1", "/", "u", "s", "e", "r">>)

GetV1SlashUser == Req(get, <<"/", "v", "1", "/", "/", "u", "s", "e", "r">>)

HandlerOf(res) == res.log[Len(res.log)].fn

\* C2 as stated: after that merge A has a binding that matches GET "/v1/user",
\* and dispatching GET "/v1/user" on A calls B's handler.
C2_V1User ==
    MergedV1User =>
        /\ Fitting(routers["A"], GetV1User) # {}
        /\ ServeFrom(routers["A"], heap, GetV1User, 1).outcome = "DONE"
        /\ HandlerOf(ServeFrom(routers["A"], heap, GetV1User, 1)) \in ChildUserHandlers

\* the bindings of A that carry the concatenated pattern "/v1//user"
MergedCopies ==
    { i \in DOMAIN routers["A"].binding :
          /\ routers["A"].binding[i].method = get
          /\ routers["A"].binding[i].match = <<"/", "v", "1", "/", "/", "u", "s", "e", "r">>
          /\ routers["A"].binding[i].handler \in ChildUserHandlers }

\* C2 amended: after that merge A has a binding with B's handler and the
\* pattern "/v1//user" (the plain concatenation), which matches GET
\* "/v1//user" and does not match GET "/v1/user"; dispatching GET "/v1//user"
\* on A calls the handler of the earliest binding that fits, which is B's
\* handler when no binding of A before the merged one fits that request.
C2_V1SlashUser ==
    MergedV1User =>
        /\ MergedCopies # {}
        /\ \A i \in MergedCopies :
               /\ Fits(routers["A"], i, GetV1SlashUser)
               /\ ~Fits(routers["A"], i, GetV1User)
        /\ ServeFrom(routers["A"], heap, GetV1SlashUser, 1).outcome = "DONE"
        /\ ServeFrom(routers["A"], heap, GetV1SlashUser, 1).binding
               = Earliest(Fitting(routers["A"], GetV1SlashUser))
        /\ (\A k \in 1..(Earliest(MergedCopies) - 1) : ~Fits(routers["A"], k, GetV1SlashUser))
               => HandlerOf(ServeFrom(routers["A"], heap, GetV1SlashUser, 1))
                      \in ChildUserHandlers

\* B has been merged behind a binding of A's own
C2_Witness ==
    /\ MergedV1User
    /\ Len(routers["A"].binding) >= 2
    /\ routers["A"].binding[1].match = sUser
    /\ HandlerOf(ServeFrom(routers["A"], heap, GetV1SlashUser, 1)) \in ChildUserHandlers

\* C3: a Merge leaves every child's table as it was: as long, in the same
\* order, every binding with the same method, pattern, handler and chain.
C3_MergeLeavesChildren ==
    [][op'.name = "Merge" =>
           \A c \in Range(op'.routers) :
               TableView(routers'[c], heap') = TableView(routers[c], heap)]_vars

\* the rows Merge is to append for child c: each binding with the child's
\* path in front of its pattern and the child's middlewares behind its chain
MergedRows(c) ==
    [i \in DOMAIN routers[c].binding |->
        [handler |-> routers[c].binding[i].handler,
         match |-> routers[c].path \o routers[c].binding[i].match,
         method |-> routers[c].binding[i].method,
         chain |-> Elems(heap, routers[c].binding[i].middlewares)
                   \o routers[c].middlewares]]

RECURSIVE RowsOfChildren(_, _)
RowsOfChildren(children, j) ==
    IF j > Len(children) THEN <<>>
    ELSE MergedRows(children[j]) \o RowsOfChildren(children, j + 1)

\* C9: Merge appends, child by child and binding by binding, a copy with the
\* same method and handler, the child's path in front of the pattern and the
\* child's middlewares behind the chain; what the parent held stays in place.
C9_MergeAppends ==
    [][op'.name = "Merge" =>
           TableView(routers'[op'.r], heap')
               = TableView(routers[op'.r], heap) \o RowsOfChildren(op'.routers, 1)]_vars

BuildCalls == {"Get", "Post", "Put", "Patch", "Delete", "Options", "Head", "Trace",
               "Connect", "Resource", "Merge"}

\* C10: a registration, Resource or Merge call on a router only appends to its
\* table: what the table held before is still there, in place and unchanged;
\* and the call returns the router it was made on.
C10_AppendOnly ==
    [][op'.name \in BuildCalls =>
           /\ IsPrefix(TableView(routers[op'.r], heap), TableView(routers'[op'.r], heap'))
           /\ op'.name # "Resource" => op'.ret = op'.r]_vars

C11_ChainThenHandler ==
    Served =>
        /\ (Fitting(TheRouter, op.req) # {} /\ resp.outcome # "PANIC")
               => resp.outcome = "DONE"
        /\ resp.outcome = "DONE" =>
               /\ resp.binding \in Fitting(TheRouter, op.req)
               /\ Fns(resp.log)
                      = TheRouter.middlewares
                        \o Elems(heap, TheRouter.binding[resp.binding].middlewares)
                        \o <<TheRouter.binding[resp.binding].handler>>
               /\ HandlerCalls = {Len(resp.log)}
        /\ resp.outcome # "DONE" => resp.log = <<>>

\* a matched dispatch that ran two router middlewares, a chain of two and
\* the handler
C11_Witness ==
    /\ Served
    /\ resp.outcome = "DONE"
    /\ Len(TheRouter.middlewares) = 2
    /\ Fns(resp.log) = TheRouter.middlewares \o <<"m1", "m2", "h2">>

\* the tokens of the matched pattern and its match on the request
MatchedTokens == TokensOf(PathToRegexp(MatchedPattern).pieces)

MatchedGroups ==
    FindStringMatch(PathToRegexp(MatchedPattern).pieces, URLString(op.req)).groups

\* C12: when the matched pattern has two or more named segments, the handler's
\* parameter context binds the i-th name to the text captured at the i-th
\* named segment, for every i.
C12_EachParamBound ==
    (Served /\ resp.outcome = "DONE" /\ Len(MatchedTokens) >= 2) =>
        \A k \in HandlerCalls, i \in DOMAIN MatchedTokens :
            PathParam(resp.log[k].ctx, MatchedTokens[i].Name)
                = Present(MatchedGroups[i + 1])

\* C13: two requests with the same method and path, whatever their query
\* strings, select the same binding and hand the handler the same parameters.
C13_QueryIgnored ==
    Served =>
        \A other \in Requests :
            (other.Method = op.req.Method /\ other.Path = op.req.Path) =>
                /\ ServeFrom(TheRouter, heap, other, 1).outcome = resp.outcome
                /\ ServeFrom(TheRouter, heap, other, 1).binding = resp.binding
                /\ ServeFrom(TheRouter, heap, other, 1).log = resp.log

Entries(log) == UNION { { log[k].ctx[j] : j \in DOMAIN log[k].ctx } : k \in DOMAIN log }

\* C15: every entry of the parameter context of a dispatch is a parameter
\* name of the selected binding's pattern bound to text of that pattern's
\* match on the request, whatever bindings were scanned before it; a dispatch
\* that does not end DONE hands out no parameter.
C15_OnlySelectedBinding ==
    Served =>
        /\ resp.outcome # "DONE" => Entries(resp.log) = {}
        /\ resp.outcome = "DONE" =>
               \A e \in Entries(resp.log) :
                   /\ e.key \in TokenNames(MatchedPattern)
                   /\ \E g \in DOMAIN MatchedGroups : e.value = MatchedGroups[g]

\* the second binding is selected after the pattern test of "/user/:id"
\* failed on the first, and its handler reads a parameter
C15_Witness ==
    /\ Served
    /\ resp.outcome = "DONE"
    /\ resp.binding = 2
    /\ TheRouter.binding[1].method = op.req.Method
    /\ TheRouter.binding[1].match = sUserId
    /\ TheRouter.binding[2].match = sAB
    /\ Entries(resp.log) # {}

\* the pattern of binding i of router r matches the request, whatever its method
PatternFits(r, i, req) ==
    /\ ~PathToRegexp(r.path \o r.binding[i].match).err
    /\ ~FindStringMatch(PathToRegexp(r.path \o r.binding[i].match).pieces,
                        URLString(req)).nil

\* C16: every call of a dispatch, middleware or handler, belongs to a dispatch
\* whose selected binding's method string equals the request's method string,
\* and a binding's own middleware and handler run only for such a request.
C16_ExactMethod ==
    Served =>
        \A k \in DOMAIN resp.log :
            /\ resp.binding \in DOMAIN TheRouter.binding
            /\ TheRouter.binding[resp.binding].method = op.req.Method
            /\ resp.log[k].from # 0 =>
                   TheRouter.binding[resp.log[k].from].method = op.req.Method

\* a request with method "get" whose path matches the pattern of a GET
\* binding ends NOT_FOUND
C16_Witness ==
    /\ Served
    /\ op.req.Method = "get"
    /\ \E i \in DOMAIN TheRouter.binding :
           /\ TheRouter.binding[i].method = get
           /\ PatternFits(TheRouter, i, op.req)
    /\ resp.outcome = "NOT_FOUND"
    /\ resp.log = <<>>

\* the rows A is to hold for the bindings of C once C is merged into B and B
\* into A: both base paths in front of the pattern, C's middlewares and then
\* B's behind the chain
NestedRows ==
    [i \in DOMAIN routers["C"].binding |->
        [handler |-> routers["C"].binding[i].handler,
         match |-> routers["B"].path \o routers["C"].path
                   \o routers["C"].binding[i].match,
         method |-> routers["C"].binding[i].method,
         chain |-> Elems(heap, routers["C"].binding[i].middlewares)
                   \o routers["C"].middlewares \o routers["B"].middlewares]]

\* the last n elements of a sequence
Tail_(s, n) == SubSeq(s, Len(s) - n + 1, Len(s))

\* C17: when B's table is the merge of C (each binding of C with C's path and
\* C's middlewares) and B is merged into A, the rows A gains are, in C's
\* registration order, the bindings of C with pattern B.path + C.path +
\* pattern and chain chain + C's middlewares + B's middlewares; and a request
\* that matches A.path + such a pattern is dispatched (DONE) by A.
C17_NestedMerge ==
    [][(/\ op'.name = "Merge" /\ op'.r = "A" /\ op'.routers = <<"B">>
        /\ routers["C"].binding # <<>>
        /\ TableView(routers["B"], heap) = MergedRows("C"))
       => /\ Len(routers'["A"].binding)
                 = Len(routers["A"].binding) + Len(routers["C"].binding)
          /\ Tail_(TableView(routers'["A"], heap'), Len(routers["C"].binding))
                 = NestedRows
          /\ \A req \in NestedRequests, i \in DOMAIN NestedRows :
                 (/\ NestedRows[i].method = req.Method
                  /\ ~FindStringMatch(
                         PathToRegexp(routers'["A"].path \o NestedRows[i].match).pieces,
                         URLString(req)).nil)
                     => ServeFrom(routers'["A"], heap', req, 1).outcome = "DONE"]_vars

\* C18: a ServeHTTP call, whatever its request and outcome, leaves every
\* router's base path, binding table and middleware list, and the arrays the
\* chains live in, as they were before the call.
C18_DispatchReadsOnly ==
    [][op'.name = "ServeHTTP" =>
           /\ routers' = routers
           /\ heap' = heap
           /\ TableView(routers'[op'.r], heap') = TableView(routers[op'.r], heap)]_vars

\* a matched dispatch on a router with a base path, a middleware of its own
\* and a binding with a chain
C18_Witness ==
    /\ Served
    /\ resp.outcome = "DONE"
    /\ TheRouter.path = sV1
    /\ TheRouter.middlewares # <<>>
    /\ Elems(heap, TheRouter.binding[resp.binding].middlewares) = <<"m1", "m2">>

\* C20: a registration, AddMiddleware or Base call on a router leaves the
\* table of every other router as it was (length, patterns, methods, handlers
\* and chains), also of a router it was merged into before.
C20_MergeSnapshots ==
    [][op'.name \in {"Get", "AddMiddleware", "Base"} =>
           \A p \in RouterIds \ {op'.r} :
               TableView(routers'[p], heap') = TableView(routers[p], heap)]_vars

\* B was merged into A, then given a middleware: the binding A holds from B
\* does not carry it
C20_Witness ==
    /\ op.name = "AddMiddleware"
    /\ op.r = "B"
    /\ routers["B"].middlewares = <<"g1">>
    /\ routers["B"].binding # <<>>
    /\ \E i \in DOMAIN routers["A"].binding :
           /\ routers["A"].binding[i].handler = "h1"
           /\ TableView(routers["A"], heap)[i].chain = <<>>

\* the ServeHTTP calls in flight that have returned
Returned == { k \in Slots : inflight[k].pc \in {"done", "not_found", "panic"} }

\* what the call in slot k does when its request is dispatched alone
Alone(k) == ServeFrom(routers["A"], heap, inflight[k].req, 1)

\* C19: however the steps of the calls in flight interleave, a call that has
\* returned selected the binding, made the calls and handed its handler the
\* parameter context that a dispatch of its request alone does: PathParam in
\* its handler is the value of its own request for every key.
C19_PrivateContext ==
    \A k \in Returned :
        /\ inflight[k].pc = "done" <=> Alone(k).outcome = "DONE"
        /\ inflight[k].pc = "not_found" <=> Alone(k).outcome = "NOT_FOUND"
        /\ inflight[k].pc = "panic" <=> Alone(k).outcome = "PANIC"
        /\ inflight[k].pc = "done" => inflight[k].i = Alone(k).binding
        /\ inflight[k].log = Alone(k).log
        /\ \A n \in DOMAIN inflight[k].log, key \in ProbeKeys :
               PathParam(inflight[k].log[n].ctx, key)
                   = PathParam(Alone(k).log[n].ctx, key)

\* the second call ran its handler with id = 7 while the first, on the same
\* binding, had built its context with id = 42 and not yet called the handler
C19_Witness ==
    /\ inflight[1].pc = "handle"
    /\ inflight[2].pc = "done"
    /\ inflight[1].i = inflight[2].i
    /\ PathParam(inflight[1].ctx, sId) = Present(s42)
    /\ \E n \in DOMAIN inflight[2].log :
           /\ inflight[2].log[n].kind = "handler"
           /\ PathParam(inflight[2].log[n].ctx, sId) = Present(s7)

====
